---- MODULE Spec2Model ----
(***************************************************************************)
(* Model of lib/toon_util.py: the JSON <-> TOON command-line wrapper.      *)
(*                                                                         *)
(* Strings are sequences of one-character strings, so that split('.'),     *)
(* isdigit(), int(), str() and json.dumps() are computed character by      *)
(* character.  A Python value is a pair <<tag, payload>>:                  *)
(*   <<"dict", <<  <<key, value>>, ... >> >>   insertion-ordered mapping   *)
(*   <<"list", << value, ... >> >>                                         *)
(*   <<"str", chars>>  <<"int", n>>  <<"bool", b>>  <<"None", <<>> >>      *)
(* Python's None is both the decoded JSON null and the marker dict.get     *)
(* returns for a missing key; the model keeps the two identical, as the    *)
(* code does.                                                              *)
(***************************************************************************)
EXTENDS Integers, Sequences, FiniteSets, TLC

(* ------------------------------------------------------------------ *)
(* Bounds of the checked input space                                  *)
(* ------------------------------------------------------------------ *)
MaxLen == 2
MaxParts == 3

(* ------------------------------------------------------------------ *)
(* Python values                                                       *)
(* ------------------------------------------------------------------ *)
NoneV == <<"None", <<>> >>
BoolV(b) == <<"bool", b>>
IntV(n) == <<"int", n>>
StrV(s) == <<"str", s>>
ListV(items) == <<"list", items>>
DictV(pairs) == <<"dict", pairs>>

IsDict(v) == v[1] = "dict"
IsList(v) == v[1] = "list"
IsNone(v) == v[1] = "None"

Digits == <<"0", "1", "2", "3", "4", "5", "6", "7", "8", "9">>

RECURSIVE JoinWith(_, _)
JoinWith(sep, ss) ==
  IF ss = <<>> THEN <<>>
  ELSE IF Len(ss) = 1 THEN Head(ss)
  ELSE Head(ss) \o sep \o JoinWith(sep, Tail(ss))

(* str.split('.'): always at least one segment, empty segments kept *)
RECURSIVE SplitDot(_)
SplitDot(s) ==
  IF \A i \in 1..Len(s) : s[i] # "."
  THEN <<s>>
  ELSE LET k == CHOOSE i \in 1..Len(s) : s[i] = "." /\ \A j \in 1..(i - 1) : s[j] # "."
       IN  <<SubSeq(s, 1, k - 1)>> \o SplitDot(SubSeq(s, k + 1, Len(s)))

(* str.isdigit(): non-empty and every character a digit *)
IsDigitStr(s) == s # <<>> /\ \A i \in 1..Len(s) : \E d \in 1..10 : s[i] = Digits[d]

DigitVal(c) == (CHOOSE d \in 1..10 : Digits[d] = c) - 1

(* int(part) for an all-digit string *)
RECURSIVE ParseInt(_)
ParseInt(s) ==
  IF s = <<>> THEN 0
  ELSE 10 * ParseInt(SubSeq(s, 1, Len(s) - 1)) + DigitVal(s[Len(s)])

(* decimal text of an integer, as str(int) and json.dumps(int) give it *)
RECURSIVE NatText(_)
NatText(n) == IF n < 10 THEN <<Digits[n + 1]>> ELSE NatText(n \div 10) \o <<Digits[(n % 10) + 1]>>

IntText(n) == IF n < 0 THEN <<"-">> \o NatText(0 - n) ELSE NatText(n)

(* dict.get(key): the value stored under key, None when the key is absent *)
HasKey(v, key) == \E i \in 1..Len(v[2]) : v[2][i][1] = key

DictGet(v, key) ==
  IF HasKey(v, key)
  THEN v[2][CHOOSE i \in 1..Len(v[2]) : v[2][i][1] = key][2]
  ELSE NoneV

(* ------------------------------------------------------------------ *)
(* json.dumps and str                                                  *)
(* ------------------------------------------------------------------ *)
RECURSIVE EscapeJson(_)
EscapeJson(s) ==
  IF s = <<>> THEN <<>>
  ELSE (IF Head(s) \in {"\"", "\\"} THEN <<"\\", Head(s)>> ELSE <<Head(s)>>) \o EscapeJson(Tail(s))

QuoteJson(s) == <<"\"">> \o EscapeJson(s) \o <<"\"">>

ScalarJson(v) ==
  CASE v[1] = "None" -> <<"n", "u", "l", "l">>
    [] v[1] = "bool" -> IF v[2] THEN <<"t", "r", "u", "e">> ELSE <<"f", "a", "l", "s", "e">>
    [] v[1] = "int"  -> IntText(v[2])
    [] v[1] = "str"  -> QuoteJson(v[2])

(* json.dumps(value): one line, items separated by ", ", keys by ": " *)
RECURSIVE JsonDumps(_)
JsonDumps(v) ==
  IF IsList(v)
  THEN <<"[">> \o JoinWith(<<",", " ">>, [i \in 1..Len(v[2]) |-> JsonDumps(v[2][i])]) \o <<"]">>
  ELSE IF IsDict(v)
  THEN <<"{">>
       \o JoinWith(<<",", " ">>,
                   [i \in 1..Len(v[2]) |->
                      QuoteJson(v[2][i][1]) \o <<":", " ">> \o JsonDumps(v[2][i][2])])
       \o <<"}">>
  ELSE ScalarJson(v)

Indent == 2

Spaces(n) == [i \in 1..n |-> " "]

(* json.dumps(value, indent=2): one item per line, nested by 2 spaces *)
RECURSIVE JsonPretty(_, _)
JsonPretty(v, level) ==
  LET nl(l) == <<"\n">> \o Spaces(Indent * l)
  IN
  IF IsList(v)
  THEN IF v[2] = <<>> THEN <<"[", "]">>
       ELSE <<"[">> \o nl(level + 1)
            \o JoinWith(<<",">> \o nl(level + 1),
                        [i \in 1..Len(v[2]) |-> JsonPretty(v[2][i], level + 1)])
            \o nl(level) \o <<"]">>
  ELSE IF IsDict(v)
  THEN IF v[2] = <<>> THEN <<"{", "}">>
       ELSE <<"{">> \o nl(level + 1)
            \o JoinWith(<<",">> \o nl(level + 1),
                        [i \in 1..Len(v[2]) |->
                           QuoteJson(v[2][i][1]) \o <<":", " ">>
                           \o JsonPretty(v[2][i][2], level + 1)])
            \o nl(level) \o <<"}">>
  ELSE ScalarJson(v)

JsonDumpsIndent(v) == JsonPretty(v, 0)

(* str(value) of a scalar *)
PyStr(v) ==
  CASE v[1] = "None" -> <<"N", "o", "n", "e">>
    [] v[1] = "bool" -> IF v[2] THEN <<"T", "r", "u", "e">> ELSE <<"F", "a", "l", "s", "e">>
    [] v[1] = "int"  -> IntText(v[2])
    [] v[1] = "str"  -> v[2]

(* ------------------------------------------------------------------ *)
(* read_toon: dotted-path traversal and the final result              *)
(* ------------------------------------------------------------------ *)
Ok(x) == <<"ok", x>>
Raise(e) == <<"raise", e>>
IsOk(r) == r[1] = "ok"

(* variant: the test is `is not None` instead of truthiness *)
TruthyNotNone(opt) == opt # <<>>

(* An optional argument: <<>> is Python's None, <<s>> is the string s. *)
(* `if field:` / `if output_path:` is true of a non-empty string only. *)
Truthy(opt) == opt # <<>> /\ opt[1] # <<>>

(* variant: an all-digit segment is converted before the mapping lookup, *)
(* value.get(int(part)), and no string key equals an integer             *)
RECURSIVE TraverseIntKey(_, _)
TraverseIntKey(value, parts) ==
  IF parts = <<>> THEN Ok(value)
  ELSE LET part == Head(parts) IN
       IF IsDict(value)
       THEN TraverseIntKey(IF IsDigitStr(part) THEN NoneV ELSE DictGet(value, part), Tail(parts))
       ELSE IF IsList(value) /\ IsDigitStr(part)
       THEN IF ParseInt(part) < Len(value[2])
            THEN TraverseIntKey(value[2][ParseInt(part) + 1], Tail(parts))
            ELSE Raise("IndexError")
       ELSE Ok(NoneV)

(* variant: value[part] instead of value.get(part) *)
RECURSIVE TraverseKeyError(_, _)
TraverseKeyError(value, parts) ==
  IF parts = <<>> THEN Ok(value)
  ELSE LET part == Head(parts) IN
       IF IsDict(value)
       THEN IF HasKey(value, part)
            THEN TraverseKeyError(DictGet(value, part), Tail(parts))
            ELSE Raise("KeyError")
       ELSE IF IsList(value) /\ IsDigitStr(part)
       THEN IF ParseInt(part) < Len(value[2])
            THEN TraverseKeyError(value[2][ParseInt(part) + 1], Tail(parts))
            ELSE Raise("IndexError")
       ELSE Ok(NoneV)

(* variant: the index is range-checked and a miss ends the loop with None *)
RECURSIVE TraverseRangeChecked(_, _)
TraverseRangeChecked(value, parts) ==
  IF parts = <<>> THEN Ok(value)
  ELSE LET part == Head(parts) IN
       IF IsDict(value)
       THEN TraverseRangeChecked(DictGet(value, part), Tail(parts))
       ELSE IF IsList(value) /\ IsDigitStr(part) /\ ParseInt(part) < Len(value[2])
       THEN TraverseRangeChecked(value[2][ParseInt(part) + 1], Tail(parts))
       ELSE Ok(NoneV)

(* the for-loop over parts: value.get(part), value[int(part)], or break *)
RECURSIVE Traverse(_, _)
Traverse(value, parts) ==
  IF parts = <<>> THEN Ok(value)
  ELSE LET part == Head(parts) IN
       IF IsDict(value)
       THEN Traverse(DictGet(value, part), Tail(parts))
       ELSE IF IsList(value) /\ IsDigitStr(part)
       THEN IF ParseInt(part) < Len(value[2])
            THEN Traverse(value[2][ParseInt(part) + 1], Tail(parts))
            ELSE Raise("IndexError")
       ELSE Ok(NoneV)

(* variant: `elif value:` instead of `elif value is not None:` *)
FinalResultTruthy(value) ==
  IF IsDict(value) \/ IsList(value) THEN JsonDumps(value)
  ELSE IF ~IsNone(value) /\ value \notin {BoolV(FALSE), IntV(0), StrV(<<>>)} THEN PyStr(value)
  ELSE <<>>

(* the if / elif / else after the loop *)
FinalResult(value) ==
  IF IsDict(value) \/ IsList(value) THEN JsonDumps(value)
  ELSE IF ~IsNone(value) THEN PyStr(value)
  ELSE <<>>

(* ------------------------------------------------------------------ *)
(* File contents and the external converters                           *)
(* ------------------------------------------------------------------ *)
(* A file content or an output string is <<"text", chars>> (JSON or    *)
(* any other plain text) or <<"toon", D>>, the TOON text of document   *)
(* D.  The TOON grammar belongs to the external toon library; its text *)
(* is kept opaque and toon.decode inverts toon.encode on it.  Text that *)
(* no encoder produced is rejected by the decoders.                    *)
Text(chars) == <<"text", chars>>
NoFile == <<"nofile", <<>> >>
Garbage == Text(<<"?">>)

ToonEncode(data) == <<"toon", data>>

ToonDecode(content) ==
  IF content[1] = "toon" THEN Ok(content[2]) ELSE Raise("ToonDecodeError")

(* Documents the command-line runs convert *)
FileDocs ==
  { DictV(<< <<<<"a">>, ListV(<<IntV(0), StrV(<<"a">>)>>)>> >>),
    DictV(<< <<<<"a">>, NoneV>>, <<<<"0">>, BoolV(FALSE)>> >>),
    ListV(<<>>) }

JsonTexts == { <<JsonDumps(d), d>> : d \in FileDocs } \cup { <<JsonDumpsIndent(d), d>> : d \in FileDocs }

(* json.load: the document the text serialises, JSONDecodeError otherwise *)
JsonLoad(content) ==
  IF content[1] = "text" /\ \E e \in JsonTexts : e[1] = content[2]
  THEN Ok((CHOOSE e \in JsonTexts : e[1] = content[2])[2])
  ELSE Raise("JSONDecodeError")

(* ------------------------------------------------------------------ *)
(* The three file operations, from the text read to the string made    *)
(* ------------------------------------------------------------------ *)
Failed(e) == [exc |-> e, data |-> NoneV, value |-> NoneV, result |-> Text(<<>>)]

EncodeConvert(buf) ==
  LET r == JsonLoad(buf) IN
  IF ~IsOk(r) THEN Failed(r[2])
  ELSE [exc |-> "none", data |-> r[2], value |-> NoneV, result |-> ToonEncode(r[2])]

(* variant: the text that was read is returned in place of json_str *)
DecodeConvertEcho(buf) ==
  LET r == ToonDecode(buf) IN
  IF ~IsOk(r) THEN Failed(r[2])
  ELSE [exc |-> "none", data |-> r[2], value |-> NoneV, result |-> buf]

DecodeConvert(buf) ==
  LET r == ToonDecode(buf) IN
  IF ~IsOk(r) THEN Failed(r[2])
  ELSE [exc |-> "none", data |-> r[2], value |-> NoneV,
        result |-> Text(JsonDumpsIndent(r[2]))]

ReadConvert(buf, field) ==
  LET r == ToonDecode(buf) IN
  IF ~IsOk(r) THEN Failed(r[2])
  ELSE IF Truthy(field)
  THEN LET t == Traverse(r[2], SplitDot(field[1])) IN
       IF ~IsOk(t) THEN [Failed(t[2]) EXCEPT !.data = r[2]]
       ELSE [exc |-> "none", data |-> r[2], value |-> t[2],
             result |-> Text(FinalResult(t[2]))]
  ELSE [exc |-> "none", data |-> r[2], value |-> NoneV,
        result |-> Text(JsonDumpsIndent(r[2]))]

(* ------------------------------------------------------------------ *)
(* Command line, paths and the bounded input sets                      *)
(* ------------------------------------------------------------------ *)
PROG == <<"t", "o", "o", "n", "_", "u", "t", "i", "l", ".", "p", "y">>
ENCODE == <<"e", "n", "c", "o", "d", "e">>
DECODE == <<"d", "e", "c", "o", "d", "e">>
READ == <<"r", "e", "a", "d">>
GET == <<"g", "e", "t">>
BOGUS == <<"f", "r", "o", "b">>
EXTRA == <<"x">>

(* the module docstring and the fixed messages, each kept as one token *)
Doc == <<"__doc__">>
GetUsage == <<"Usage: toon_util.py get <toon_file> <field>">>
UnknownCommand(cmd) == <<"Unknown command: ">> \o cmd
Wrote(path) == <<"W", "r", "o", "t", "e", " ">> \o path
Traceback(e) == <<"Traceback (most recent call last): ", e>>

F1 == <<"f", "1">>
F2 == <<"f", "2">>
Paths == {F1, F2}
PathArgs == Paths \cup {<<>>}

SeqsUpTo(S, n) == UNION { [1..k -> S] : k \in 0..n }

(* documents for the traversal: scalars, containers of scalars, and    *)
(* containers holding one such container                               *)
Keys == {<<"a">>, <<"0">>}
Leaves == {NoneV, BoolV(FALSE), IntV(0), StrV(<<>>), StrV(<<"a">>)}
NestLeaves == {NoneV, IntV(0), StrV(<<"a">>)}

ListsOver(S) == { ListV(s) : s \in SeqsUpTo(S, MaxLen) }

DictsOver(S) ==
  { DictV(ps) : ps \in { q \in SeqsUpTo(Keys \X S, MaxLen) :
                           \A i, j \in 1..Len(q) : q[i][1] = q[j][1] => i = j } }

Level1 == ListsOver(Leaves) \cup DictsOver(Leaves)

Nested == ListsOver(NestLeaves) \cup DictsOver(NestLeaves)

Level2 ==
  { DictV(<< <<k, c>> >>) : k \in Keys, c \in Nested }
  \cup { ListV(<<IntV(0), c>>) : c \in Nested }

ReadDocs == Leaves \cup Level1 \cup Level2

Segments == {<<>>, <<"a">>, <<"0">>, <<"0", "1">>}

ReadFields == { JoinWith(<<".">>, ss) : ss \in (SeqsUpTo(Segments, MaxParts) \ {<<>>}) }

CliFields ==
  { <<>>, <<"a">>, <<"a", ".", "1">>, <<"a", ".", "2">>, <<"b", ".", "a">> }

FourthArgs(cmd) == IF cmd \in {ENCODE, DECODE} THEN PathArgs ELSE CliFields

Commands == {ENCODE, DECODE, READ, GET, BOGUS}

CliArgvs ==
  {<<PROG>>}
  \cup { <<PROG, c>> : c \in Commands }
  \cup { <<PROG, c, p>> : c \in Commands, p \in PathArgs }
  \cup UNION { { <<PROG, c, p, x>> : p \in PathArgs, x \in FourthArgs(c) } : c \in Commands }
  \cup UNION { { <<PROG, c, p, x, EXTRA>> : p \in PathArgs, x \in FourthArgs(c) } : c \in Commands }

InitContents ==
  {NoFile, Garbage}
  \cup { ToonEncode(d) : d \in FileDocs }
  \cup { Text(JsonDumps(d)) : d \in FileDocs }
  \cup { Text(JsonDumpsIndent(d)) : d \in FileDocs }

(* ------------------------------------------------------------------ *)
(* State                                                               *)
(* ------------------------------------------------------------------ *)
VARIABLES
  fs,       \* the filesystem: path -> content
  argv,     \* sys.argv of the running process
  pc,       \* "idle", "main", "open", "convert", "write", "print", "exited"
  buf,      \* the text read from the input file
  data,     \* the decoded document
  value,    \* read_toon's traversal variable after the loop
  result,   \* the string the operation returns
  exc,      \* the uncaught exception, "none" when there is none
  stdout,   \* what print() wrote, one entry per call
  stderr,
  status,   \* the exit status, -1 while the process runs
  opens,    \* the open() calls made so far: <<mode, path>>
  fs0,      \* history: the filesystem when the process started
  src,      \* history: origin of the input file when it was read
  origin    \* history: path -> <<D>> when encode_file last wrote it from D

vars == <<fs, argv, pc, buf, data, value, result, exc, stdout, stderr, status, opens, fs0, src, origin>>

command == argv[2]
InPath == argv[3]
(* sys.argv[3] if len(sys.argv) > 3 else None *)
OptArg == IF Len(argv) > 3 THEN <<argv[4]>> ELSE <<>>

FileAt(files, path) == IF path \in DOMAIN files THEN files[path] ELSE NoFile

(* ------------------------------------------------------------------ *)
(* main(): argument checks and dispatch                                *)
(* ------------------------------------------------------------------ *)
UsageExit(out, err) == [pc |-> "exited", out |-> out, err |-> err, status |-> 1]
Dispatch == [pc |-> "open", out |-> <<>>, err |-> <<>>, status |-> -1]

(* variant: the unknown-command branch lacks its sys.exit(1) *)
MainOutcomeNoExit(av) ==
  IF Len(av) < 3 THEN UsageExit(<<Text(Doc)>>, <<>>)
  ELSE IF av[2] \in {ENCODE, DECODE, READ} THEN Dispatch
  ELSE IF av[2] = GET
  THEN IF Len(av) < 4 THEN UsageExit(<<>>, <<Text(GetUsage)>>) ELSE Dispatch
  ELSE [UsageExit(<<Text(Doc)>>, <<Text(UnknownCommand(av[2]))>>) EXCEPT !.status = 0]

(* variant: the get usage line is printed without file=sys.stderr *)
MainOutcomeGetStdout(av) ==
  IF Len(av) < 3 THEN UsageExit(<<Text(Doc)>>, <<>>)
  ELSE IF av[2] \in {ENCODE, DECODE, READ} THEN Dispatch
  ELSE IF av[2] = GET
  THEN IF Len(av) < 4 THEN UsageExit(<<Text(GetUsage)>>, <<>>) ELSE Dispatch
  ELSE UsageExit(<<Text(Doc)>>, <<Text(UnknownCommand(av[2]))>>)

MainOutcome(av) ==
  IF Len(av) < 3 THEN UsageExit(<<Text(Doc)>>, <<>>)
  ELSE IF av[2] \in {ENCODE, DECODE, READ} THEN Dispatch
  ELSE IF av[2] = GET
  THEN IF Len(av) < 4 THEN UsageExit(<<>>, <<Text(GetUsage)>>) ELSE Dispatch
  ELSE UsageExit(<<Text(Doc)>>, <<Text(UnknownCommand(av[2]))>>)

(* ------------------------------------------------------------------ *)
(* Actions                                                             *)
(* ------------------------------------------------------------------ *)
(* a new process is started on the filesystem the last one left *)
Start ==
  /\ pc \in {"idle", "exited"}
  /\ \E av \in CliArgvs : argv' = av
  /\ pc' = "main"
  /\ buf' = NoFile
  /\ data' = NoneV
  /\ value' = NoneV
  /\ result' = Text(<<>>)
  /\ exc' = "none"
  /\ stdout' = <<>>
  /\ stderr' = <<>>
  /\ status' = -1
  /\ opens' = <<>>
  /\ fs0' = fs
  /\ src' = <<>>
  /\ UNCHANGED <<fs, origin>>

Main ==
  /\ pc = "main"
  /\ LET o == MainOutcome(argv) IN
       /\ pc' = o.pc
       /\ stdout' = o.out
       /\ stderr' = o.err
       /\ status' = o.status
  /\ UNCHANGED <<fs, argv, buf, data, value, result, exc, opens, fs0, src, origin>>

(* an exception nothing catches: traceback on stderr, exit status 1 *)
Uncaught(e) ==
  /\ exc' = e
  /\ stderr' = Append(stderr, Text(Traceback(e)))
  /\ status' = 1
  /\ pc' = "exited"

(* variant: the output file is opened 'w' (and so truncated) before the *)
(* input is read                                                        *)
OpenInputAfterOutput ==
  /\ pc = "open"
  /\ LET early == command \in {ENCODE, DECODE} /\ Truthy(OptArg)
         files == IF early
                  THEN [p \in DOMAIN fs \cup {OptArg[1]} |->
                          IF p = OptArg[1] THEN Text(<<>>) ELSE fs[p]]
                  ELSE fs
         log   == IF early THEN Append(opens, <<"w", OptArg[1]>>) ELSE opens
     IN
       /\ fs' = files
       /\ IF FileAt(files, InPath) = NoFile
          THEN /\ Uncaught("FileNotFoundError")
               /\ opens' = log
               /\ UNCHANGED <<buf, src>>
          ELSE /\ buf' = FileAt(files, InPath)
               /\ opens' = Append(log, <<"r", InPath>>)
               /\ src' = IF InPath \in DOMAIN origin THEN origin[InPath] ELSE <<>>
               /\ pc' = "convert"
               /\ UNCHANGED <<exc, stderr, status>>
  /\ UNCHANGED <<argv, data, value, result, stdout, fs0, origin>>

(* with open(path, 'r') as f: ... f.read() *)
OpenInput ==
  /\ pc = "open"
  /\ IF FileAt(fs, InPath) = NoFile
     THEN /\ Uncaught("FileNotFoundError")
          /\ UNCHANGED <<buf, opens, src>>
     ELSE /\ buf' = FileAt(fs, InPath)
          /\ opens' = Append(opens, <<"r", InPath>>)
          /\ src' = IF InPath \in DOMAIN origin THEN origin[InPath] ELSE <<>>
          /\ pc' = "convert"
          /\ UNCHANGED <<exc, stderr, status>>
  /\ UNCHANGED <<fs, argv, data, value, result, stdout, fs0, origin>>

(* parse and convert what was read; choose between writing and returning *)
Convert ==
  /\ pc = "convert"
  /\ LET r == CASE command = ENCODE -> EncodeConvert(buf)
                [] command = DECODE -> DecodeConvert(buf)
                [] OTHER -> ReadConvert(buf, OptArg)
     IN
       /\ data' = r.data
       /\ value' = r.value
       /\ result' = r.result
       /\ IF r.exc # "none"
          THEN Uncaught(r.exc)
          ELSE /\ pc' = IF command \in {ENCODE, DECODE} /\ Truthy(OptArg)
                        THEN "write" ELSE "print"
               /\ UNCHANGED <<exc, stderr, status>>
  /\ UNCHANGED <<fs, argv, buf, stdout, opens, fs0, src, origin>>

(* variant: the result is written over the input path *)
WriteOutputToInput ==
  /\ pc = "write"
  /\ LET out == InPath IN
       /\ fs' = [p \in DOMAIN fs \cup {out} |-> IF p = out THEN result ELSE fs[p]]
       /\ opens' = Append(opens, <<"w", out>>)
       /\ origin' = [p \in DOMAIN origin \cup {out} |->
                       IF p = out
                       THEN (IF command = ENCODE THEN <<data>> ELSE <<>>)
                       ELSE origin[p]]
       /\ result' = Text(Wrote(OptArg[1]))
  /\ pc' = "print"
  /\ UNCHANGED <<argv, buf, data, value, exc, stdout, stderr, status, fs0, src>>

(* with open(output_path, 'w') as f: f.write(...); return "Wrote ..." *)
WriteOutput ==
  /\ pc = "write"
  /\ LET out == OptArg[1] IN
       /\ fs' = [p \in DOMAIN fs \cup {out} |-> IF p = out THEN result ELSE fs[p]]
       /\ opens' = Append(opens, <<"w", out>>)
       /\ origin' = [p \in DOMAIN origin \cup {out} |->
                       IF p = out
                       THEN (IF command = ENCODE THEN <<data>> ELSE <<>>)
                       ELSE origin[p]]
       /\ result' = Text(Wrote(out))
  /\ pc' = "print"
  /\ UNCHANGED <<argv, buf, data, value, exc, stdout, stderr, status, fs0, src>>

(* print(<the operation's return value>); the process ends normally *)
PrintResult ==
  /\ pc = "print"
  /\ stdout' = Append(stdout, result)
  /\ status' = 0
  /\ pc' = "exited"
  /\ UNCHANGED <<fs, argv, buf, data, value, result, exc, stderr, opens, fs0, src, origin>>

Locals0 ==
  /\ buf = NoFile
  /\ data = NoneV
  /\ value = NoneV
  /\ result = Text(<<>>)
  /\ exc = "none"
  /\ stdout = <<>>
  /\ stderr = <<>>
  /\ status = -1
  /\ opens = <<>>

(* any sequence of command-line runs over two files *)
Init ==
  /\ fs \in [Paths -> InitContents]
  /\ argv = <<PROG>>
  /\ pc = "idle"
  /\ Locals0
  /\ fs0 = fs
  /\ src = <<>>
  /\ origin = [p \in Paths |-> <<>>]

Next == Start \/ Main \/ OpenInput \/ Convert \/ WriteOutput \/ PrintResult

Spec == Init /\ [][Next]_vars

(* one `read` or `get` run over a TOON file holding any bounded document *)
InitRead ==
  /\ \E d \in ReadDocs : fs = [p \in Paths |-> IF p = F1 THEN ToonEncode(d) ELSE NoFile]
  /\ \E c \in {READ, GET}, f \in ReadFields : argv = <<PROG, c, F1, f>>
  /\ pc = "main"
  /\ Locals0
  /\ fs0 = fs
  /\ src = <<>>
  /\ origin = [p \in Paths |-> <<>>]

NextRead == Main \/ OpenInput \/ Convert \/ PrintResult

SpecRead == InitRead /\ [][NextRead]_vars

(* ------------------------------------------------------------------ *)
(* Properties                                                          *)
(* ------------------------------------------------------------------ *)
Range(seq) == { seq[i] : i \in 1..Len(seq) }

Exited == pc = "exited"

(* a read or get run with a non-empty field over a well-formed TOON file *)
FieldRun ==
  /\ pc # "idle"
  /\ Len(argv) > 3
  /\ command \in {READ, GET}
  /\ argv[4] # <<>>
  /\ FileAt(fs0, InPath)[1] = "toon"

FileDoc == FileAt(fs0, InPath)[2]
FieldParts == SplitDot(argv[4])

(* the value reached by following the segments, <<>> when some segment *)
(* names no key of a mapping or no index of a sequence                 *)
RECURSIVE Reached(_, _)
Reached(v, parts) ==
  IF parts = <<>> THEN <<v>>
  ELSE IF IsDict(v) /\ \E i \in 1..Len(v[2]) : v[2][i][1] = Head(parts)
  THEN Reached(v[2][CHOOSE i \in 1..Len(v[2]) : v[2][i][1] = Head(parts)][2], Tail(parts))
  ELSE IF IsList(v) /\ IsDigitStr(Head(parts)) /\ ParseInt(Head(parts)) < Len(v[2])
  THEN Reached(v[2][ParseInt(Head(parts)) + 1], Tail(parts))
  ELSE <<>>

(* the first segment that cannot be followed is a missing key, a segment *)
(* applied to a scalar or to None, or a non-digit segment on a sequence  *)
RECURSIVE SoftFails(_, _)
SoftFails(v, parts) ==
  /\ parts # <<>>
  /\ IF IsDict(v)
     THEN \/ ~HasKey(v, Head(parts))
          \/ SoftFails(DictGet(v, Head(parts)), Tail(parts))
     ELSE IF IsList(v)
     THEN \/ ~IsDigitStr(Head(parts))
          \/ /\ ParseInt(Head(parts)) < Len(v[2])
             /\ SoftFails(v[2][ParseInt(Head(parts)) + 1], Tail(parts))
     ELSE TRUE

(* the first segment that cannot be followed is an all-digit segment *)
(* that indexes a sequence at or beyond its length                   *)
RECURSIVE HitsOutOfRange(_, _)
HitsOutOfRange(v, parts) ==
  /\ parts # <<>>
  /\ IF IsDict(v)
     THEN HasKey(v, Head(parts)) /\ HitsOutOfRange(DictGet(v, Head(parts)), Tail(parts))
     ELSE /\ IsList(v)
          /\ IsDigitStr(Head(parts))
          /\ \/ ParseInt(Head(parts)) >= Len(v[2])
             \/ /\ ParseInt(Head(parts)) < Len(v[2])
                /\ HitsOutOfRange(v[2][ParseInt(Head(parts)) + 1], Tail(parts))

(* C1: when every segment of a non-empty field names a key of the mapping *)
(* it is applied to (all-digit segments included) or an in-range index of *)
(* the sequence it is applied to, read_toon's value after the loop is the *)
(* value reached by following the segments in order, and that value is    *)
(* what is rendered and printed.                                          *)
C1_ResolvedValueIsRendered ==
  (FieldRun /\ Exited /\ Reached(FileDoc, FieldParts) # <<>>)
    => /\ exc = "none"
       /\ value = Reached(FileDoc, FieldParts)[1]
       /\ result = Text(FinalResult(Reached(FileDoc, FieldParts)[1]))
       /\ stdout = <<result>>
       /\ status = 0

C1_Witness ==
  /\ FieldRun /\ Exited
  /\ FileDoc = DictV(<< <<<<"0">>, ListV(<<IntV(0), StrV(<<"a">>)>>)>> >>)
  /\ argv[4] = <<"0", ".", "0", "1">>
  /\ value = StrV(<<"a">>)
  /\ stdout = <<Text(<<"a">>)>>

(* C2: when the first segment that cannot be followed is a missing key, a *)
(* segment applied to a scalar or None, or a non-digit segment applied to *)
(* a sequence, read_toon returns "" and raises nothing, whatever follows. *)
C2_MissingFieldIsEmptyString ==
  (FieldRun /\ Exited /\ SoftFails(FileDoc, FieldParts))
    => /\ exc = "none"
       /\ result = Text(<<>>)
       /\ stdout = <<Text(<<>>)>>
       /\ stderr = <<>>
       /\ status = 0

C2_Witness ==
  /\ FieldRun /\ Exited
  /\ IsDict(FileDoc) /\ ~HasKey(FileDoc, <<"a">>)
  /\ argv[4] = <<"a", ".", "0", "1", ".", "0", "1">>
  /\ stdout = <<Text(<<>>)>>
  /\ status = 0

(* C3: the string read_toon returns for a field is the compact JSON text  *)
(* of a mapping or sequence, the plain str() of a scalar other than None  *)
(* (False, 0 and "" included), and "" for None; exactly one case applies. *)
C3_FinalResultPolicy ==
  (FieldRun /\ pc \in {"print", "exited"} /\ exc = "none")
    => LET composite == value[1] \in {"dict", "list"}
           scalar    == value[1] \in {"str", "int", "bool"}
           absent    == value = NoneV
       IN
         /\ Cardinality({ c \in {1, 2, 3} : \/ (c = 1 /\ composite)
                                             \/ (c = 2 /\ scalar)
                                             \/ (c = 3 /\ absent) }) = 1
         /\ composite => result = Text(JsonDumps(value))
         /\ scalar => result = Text(PyStr(value))
         /\ absent => result = Text(<<>>)
         /\ value = BoolV(FALSE) => result = Text(<<"F", "a", "l", "s", "e">>)
         /\ value = IntV(0) => result = Text(<<"0">>)
         /\ value = StrV(<<>>) => result = Text(<<>>)
         /\ Exited => stdout = <<result>>

C3_Witness ==
  /\ FieldRun /\ Exited
  /\ value = BoolV(FALSE)
  /\ stdout = <<Text(<<"F", "a", "l", "s", "e">>)>>

(* C4: an all-digit segment that indexes a sequence at or beyond its      *)
(* length makes read_toon and get_field raise IndexError: nothing is      *)
(* returned or printed and the process ends with the uncaught exception.  *)
C4_OutOfRangeIndexRaises ==
  (FieldRun /\ Exited /\ HitsOutOfRange(FileDoc, FieldParts))
    => /\ exc = "IndexError"
       /\ stdout = <<>>
       /\ stderr = <<Text(Traceback("IndexError"))>>
       /\ status = 1

C4_Witness ==
  /\ FieldRun /\ Exited
  /\ command = GET
  /\ FileDoc = DictV(<< <<<<"a">>, ListV(<<IntV(0)>>)>> >>)
  /\ argv[4] = <<"a", ".", "0", "1">>
  /\ exc = "IndexError"

(* C5: when decode_file reads a file that encode_file wrote from the JSON *)
(* document D, it succeeds, and the JSON it writes to its output path (or *)
(* returns, when none is given) parses to D.                              *)
C5_EncodeThenDecodeRoundTrip ==
  (pc \in {"write", "print", "exited"} /\ Len(argv) > 2 /\ command = DECODE /\ src # <<>>)
    => /\ exc = "none"
       /\ data = src[1]
       /\ Exited =>
            /\ status = 0
            /\ IF Truthy(OptArg)
               THEN /\ JsonLoad(FileAt(fs, OptArg[1])) = Ok(src[1])
                    /\ stdout = <<Text(Wrote(OptArg[1]))>>
               ELSE /\ Len(stdout) = 1
                    /\ JsonLoad(stdout[1]) = Ok(src[1])

C5_Witness ==
  /\ Exited /\ Len(argv) > 3 /\ command = DECODE
  /\ InPath = F1 /\ argv[4] = F2
  /\ src = << DictV(<< <<<<"a">>, ListV(<<IntV(0), StrV(<<"a">>)>>)>> >>) >>
  /\ origin[F1] = src
  /\ fs[F1] = ToonEncode(src[1])
  /\ fs[F2] = Text(JsonDumpsIndent(src[1]))
  /\ JsonLoad(fs[F2]) = Ok(src[1])

(* what encode_file / decode_file make of the input content *)
Converted(cmd, content) ==
  IF cmd = ENCODE THEN ToonEncode(JsonLoad(content)[2])
  ELSE Text(JsonDumpsIndent(ToonDecode(content)[2]))

(* C6: during a run the only path whose content differs from the content  *)
(* at the start of the run is the output_path given to encode_file or      *)
(* decode_file, and it then holds the converted input; without an          *)
(* output_path, and in read_toon and get_field, no file changes.           *)
C6_OnlyOutputPathChanges ==
  pc # "idle" =>
    /\ DOMAIN fs = DOMAIN fs0
    /\ \A p \in DOMAIN fs :
         fs[p] # fs0[p] =>
           /\ Len(argv) > 3
           /\ command \in {ENCODE, DECODE}
           /\ argv[4] # <<>>
           /\ p = argv[4]
           /\ pc \in {"print", "exited"}
           /\ fs[p] = Converted(command, FileAt(fs0, InPath))
    /\ (Exited /\ status = 0 /\ Len(argv) > 3 /\ command \in {ENCODE, DECODE} /\ argv[4] # <<>>)
         => fs[argv[4]] = Converted(command, FileAt(fs0, InPath))

C6_Witness ==
  /\ Exited /\ Len(argv) > 3 /\ command = ENCODE
  /\ InPath = F1 /\ argv[4] = F2
  /\ fs[F2] # fs0[F2]
  /\ fs[F2] = ToonEncode(ListV(<<>>))
  /\ fs[F1] = fs0[F1]
  /\ fs0[F2] # NoFile

InvalidUsage(av) ==
  \/ Len(av) < 3
  \/ av[2] \notin {ENCODE, DECODE, READ, GET}
  \/ (av[2] = GET /\ Len(av) < 4)

(* C7: a run with fewer than two arguments, an unknown command, or get    *)
(* without a field ends with exit status 1 and usage text printed, having *)
(* opened no file; an unknown command prints the module usage.            *)
C7_InvalidUsageExitsOne ==
  (pc \notin {"idle", "main"} /\ InvalidUsage(argv))
    => /\ Exited
       /\ status = 1
       /\ Text(Doc) \in Range(stdout) \/ Text(GetUsage) \in Range(stderr)
       /\ opens = <<>>
       /\ fs = fs0
       /\ (Len(argv) > 2 /\ command \notin {ENCODE, DECODE, READ, GET})
            => Text(Doc) \in Range(stdout)

C7_Witness ==
  /\ Exited
  /\ argv = <<PROG, BOGUS, F1, <<"a">> >>
  /\ fs[F1] # NoFile
  /\ status = 1
  /\ stdout = <<Text(Doc)>>
  /\ stderr = <<Text(UnknownCommand(BOGUS))>>

(* C8 as stated: every finished run whose command is get and that carries *)
(* no field has printed usage to stderr and has exit status 1, the run    *)
(* without a file argument included.                                      *)
C8_GetWithoutFieldUsageOnStderr ==
  (Exited /\ Len(argv) > 1 /\ Len(argv) < 4 /\ command = GET)
    => /\ status = 1
       /\ Text(GetUsage) \in Range(stderr) \/ Text(Doc) \in Range(stderr)

(* C8 amended: get with a file argument and no field prints the get usage *)
(* line to stderr, nothing to stdout, and exits 1; get with no file       *)
(* argument prints the module usage to stdout, nothing to stderr, and     *)
(* exits 1.                                                               *)
C8_GetWithoutField ==
  (Exited /\ Len(argv) > 1 /\ Len(argv) < 4 /\ command = GET)
    => /\ status = 1
       /\ opens = <<>>
       /\ IF Len(argv) = 3
          THEN stderr = <<Text(GetUsage)>> /\ stdout = <<>>
          ELSE stdout = <<Text(Doc)>> /\ stderr = <<>>

C8_Witness ==
  /\ Exited
  /\ argv = <<PROG, GET, F1>>
  /\ stderr = <<Text(GetUsage)>>
  /\ stdout = <<>>
  /\ status = 1

(* C9: encode_file and decode_file open the output for writing only after *)
(* the input was read and converted; a missing input, malformed JSON or   *)
(* malformed TOON ends the run with the exception uncaught, the output    *)
(* never opened and every file as it was when the run started.            *)
C9_FailedInputLeavesFilesUnchanged ==
  (pc \notin {"idle", "main"} /\ Len(argv) > 2 /\ command \in {ENCODE, DECODE})
    => LET input == FileAt(fs0, InPath)
           bad   == \/ input = NoFile
                    \/ command = ENCODE /\ ~IsOk(JsonLoad(input))
                    \/ command = DECODE /\ ~IsOk(ToonDecode(input))
       IN
         /\ \A i \in 1..Len(opens) :
              opens[i][1] = "w" =>
                /\ i = 2
                /\ opens[1] = <<"r", InPath>>
                /\ exc = "none"
                /\ ~bad
                /\ pc \in {"print", "exited"}
         /\ exc # "none" =>
              /\ Exited
              /\ status = 1
              /\ fs = fs0
              /\ \A i \in 1..Len(opens) : opens[i][1] # "w"
         /\ (bad /\ Exited) =>
              /\ exc = IF input = NoFile THEN "FileNotFoundError"
                       ELSE IF command = ENCODE THEN "JSONDecodeError"
                       ELSE "ToonDecodeError"
              /\ stdout = <<>>
         /\ bad => fs = fs0

C9_Witness ==
  /\ Exited
  /\ argv = <<PROG, ENCODE, F1, F2>>
  /\ fs0[F1] = Garbage
  /\ exc = "JSONDecodeError"
  /\ fs0[F2] = ToonEncode(ListV(<<>>))
  /\ fs[F2] = fs0[F2]
  /\ opens = << <<"r", F1>> >>

(* C10: an empty-string field is an absent field: read_toon(path, "") and *)
(* get_field(path, "") return the 2-space pretty-printed whole document,  *)
(* as read_toon(path, None) does, and `get <file> ""` passes the          *)
(* mandatory-field check, prints the document and exits 0.                *)
C10_EmptyFieldIsWholeDocument ==
  (Exited /\ Len(argv) > 3 /\ command \in {READ, GET} /\ argv[4] = <<>>
     /\ FileAt(fs0, InPath)[1] = "toon")
    => /\ ReadConvert(FileAt(fs0, InPath), <<argv[4]>>) = ReadConvert(FileAt(fs0, InPath), <<>>)
       /\ result = Text(JsonDumpsIndent(FileDoc))
       /\ stdout = <<result>>
       /\ stderr = <<>>
       /\ status = 0

C10_Witness ==
  /\ Exited
  /\ argv = <<PROG, GET, F1, <<>> >>
  /\ fs0[F1] = ToonEncode(DictV(<< <<<<"a">>, NoneV>>, <<<<"0">>, BoolV(FALSE)>> >>))
  /\ stdout = <<Text(<<"{", "\n", " ", " ", "\"", "a", "\"", ":", " ", "n", "u", "l", "l", ",",
                       "\n", " ", " ", "\"", "0", "\"", ":", " ", "f", "a", "l", "s", "e",
                       "\n", "}">>)>>
  /\ status = 0

====
